---- MODULE Spec2Model ----
(***************************************************************************)
(* Notification digest pipeline of the client dashboard (Cloud Functions). *)
(* The model follows the Firestore triggers queueOnNewComment and          *)
(* queueOnProjectStatusChange, and the scheduled function                  *)
(* sendEmailDigests, one action per awaited Firestore / transport call.    *)
(* Time is counted in minutes.                                             *)
(***************************************************************************)
EXTENDS Integers, Sequences, FiniteSets, TLC

\* ---------------------------------------------------------------- bounds
MaxEvents == 2
MaxTime == 10
TickStep == 5
\* the collapse on its own: documents of one batch and their timestamps
MaxDocs == 3
MaxStamp == 2
\* the claim query on its own: a limit that fewer documents than MaxEvents reach
QueryLimit == 1

\* ------------------------------------------------------ program constants
CutoffMin == 2
MinIntervalMin == 10
BatchLimit == 500

\* ------------------------------------------------------------- universes
Users == {"u1", "u2"}
Projects == {"p1"}
Runs == {"r1", "r2"}
Ids == 1..MaxEvents
NoDoc == [exists |-> FALSE]
NoTime == -1
NoAuthor == "undefined"
Authors == {"u1", NoAuthor}

\* users/{uid}: the email field and the stored notificationPrefs.email map
UserEmail == [u \in Users |-> IF u = "u1" THEN "u1@example.com" ELSE "null"]
StoredPrefs == [u \in Users |-> IF u = "u1" THEN [mode |-> "digest-15m"]
                                 ELSE [onStatusChange |-> FALSE, mode |-> "immediate"]]

VARIABLES now, events, meta, pc, toClaim, perUser, todo,
          mailCount, lastMailAt, everClaimed, runMails, suppressed,
          prefs, call

vars == <<now, events, meta, pc, toClaim, perUser, todo,
          mailCount, lastMailAt, everClaimed, runMails, suppressed,
          prefs, call>>

\* prefs: users/{uid}.notificationPrefs.email, written by the settings page
\* only; call: the last trigger invocation, where it is observed
Outside == <<prefs, call>>
NoCall == [fn |-> "none"]

\* observations kept per invocation and per event: the messages an invocation
\* has handed to the transport, and the events that were in a suppressed batch
Marks == <<runMails, suppressed>>
NoMails == [u \in Users |-> 0]

\* ------------------------------------------------------------ directory
getUserEmail(uid) == UserEmail[uid]

getPrefsIgnoreStored(uid) ==
  [onComment |-> TRUE, onStatusChange |-> TRUE, mode |-> "digest-15m"]

getPrefsOptOut(uid) ==
  LET stored == prefs[uid] IN
  [onComment |-> IF "onComment" \in DOMAIN stored THEN stored.onComment ELSE FALSE,
   onStatusChange |-> IF "onStatusChange" \in DOMAIN stored THEN stored.onStatusChange ELSE FALSE,
   mode |-> IF "mode" \in DOMAIN stored THEN stored.mode ELSE "digest-15m"]

getPrefsImmediateOff(uid) ==
  LET stored == prefs[uid]
      digest == ~("mode" \in DOMAIN stored /\ stored.mode = "immediate") IN
  [onComment |-> digest /\ (IF "onComment" \in DOMAIN stored THEN stored.onComment ELSE TRUE),
   onStatusChange |-> digest /\ (IF "onStatusChange" \in DOMAIN stored THEN stored.onStatusChange ELSE TRUE),
   mode |-> IF "mode" \in DOMAIN stored THEN stored.mode ELSE "digest-15m"]

getPrefs(uid) ==
  LET stored == prefs[uid] IN
  [onComment |-> IF "onComment" \in DOMAIN stored THEN stored.onComment ELSE TRUE,
   onStatusChange |-> IF "onStatusChange" \in DOMAIN stored THEN stored.onStatusChange ELSE TRUE,
   mode |-> IF "mode" \in DOMAIN stored THEN stored.mode ELSE "digest-15m"]

\* ------------------------------------------------------------- recorder
\* notification_events.add: a fresh document; auto-ids are handed out in
\* increasing order, so that the id order is the order of creation
NewEvent(uid, type, projectId, payload) ==
  [exists |-> TRUE, uid |-> uid, type |-> type, projectId |-> projectId,
   payload |-> payload,
   processed |-> FALSE, processing |-> FALSE, createdAt |-> now,
   skipped |-> "none"]

\* a || b on strings: the empty string and undefined are falsy
Or(a, b) == IF a = "" \/ a = NoAuthor THEN b ELSE a

\* the documents that fire the triggers: a comment without author name, a
\* project without title whose status goes from "new" to "done"
CommentData == [author |-> "", text |-> "hello"]
CommentPayload ==
  [author |-> Or(CommentData.author, "Someone"), text |-> Or(CommentData.text, "")]
ProjectBefore == [title |-> "", status |-> "new"]
ProjectAfter(statusChanged) ==
  [title |-> "", status |-> IF statusChanged THEN "done" ELSE "new"]
StatusPayload(projectId) ==
  [title |-> Or(ProjectAfter(TRUE).title, projectId),
   from |-> Or(ProjectBefore.status, ""),
   to |-> Or(ProjectAfter(TRUE).status, "")]

enqueueMerge(uid, type, projectId, payload) ==
  LET same == {id \in Ids : /\ events[id] # NoDoc
                            /\ events[id].uid = uid
                            /\ events[id].type = type
                            /\ events[id].projectId = projectId
                            /\ events[id].processed = FALSE} IN
  IF same # {}
  THEN \E id \in same :
         events' = [events EXCEPT ![id] = NewEvent(uid, type, projectId, payload)]
  ELSE \E id \in Ids :
         /\ events[id] = NoDoc
         /\ \A other \in Ids : other < id => events[other] # NoDoc
         /\ events' = [events EXCEPT ![id] = NewEvent(uid, type, projectId, payload)]

enqueue(uid, type, projectId, payload) ==
  \E id \in Ids :
    /\ events[id] = NoDoc
    /\ \A other \in Ids : other < id => events[other] # NoDoc
    /\ events' = [events EXCEPT ![id] = NewEvent(uid, type, projectId, payload)]

RecorderFrame == UNCHANGED <<now, meta, pc, toClaim, perUser, todo,
                             mailCount, lastMailAt, everClaimed, Marks, prefs>>

queueOnNewCommentNoSelfTest(uid, projectId, authorUid) ==
  /\ IF ~getPrefs(uid).onComment THEN UNCHANGED events
     ELSE enqueue(uid, "comment", projectId, CommentPayload)
  /\ RecorderFrame

queueOnNewComment(uid, projectId, authorUid) ==
  /\ IF ~getPrefs(uid).onComment THEN UNCHANGED events
     ELSE IF authorUid # NoAuthor /\ authorUid = uid THEN UNCHANGED events
     ELSE enqueue(uid, "comment", projectId, CommentPayload)
  /\ RecorderFrame

queueOnProjectStatusChangeAsComment(uid, projectId, statusChanged, updatedBy) ==
  /\ IF ProjectBefore.status = ProjectAfter(statusChanged).status THEN UNCHANGED events
     ELSE IF ~getPrefs(uid).onStatusChange THEN UNCHANGED events
     ELSE IF updatedBy # NoAuthor /\ updatedBy = uid THEN UNCHANGED events
     ELSE enqueue(uid, "comment", projectId, StatusPayload(projectId))
  /\ RecorderFrame

queueOnProjectStatusChange(uid, projectId, statusChanged, updatedBy) ==
  /\ IF ProjectBefore.status = ProjectAfter(statusChanged).status THEN UNCHANGED events
     ELSE IF ~getPrefs(uid).onStatusChange THEN UNCHANGED events
     ELSE IF updatedBy # NoAuthor /\ updatedBy = uid THEN UNCHANGED events
     ELSE enqueue(uid, "status", projectId, StatusPayload(projectId))
  /\ RecorderFrame

\* ------------------------------------------------------- digest: helpers
\* 3) latestByKey: collapse by (type, projectId); Map keeps first-insertion order
SameKey(a, b) ==
  /\ events[a].type = events[b].type
  /\ events[a].projectId = events[b].projectId

KeyPos(acc, d) ==
  IF \E j \in 1..Len(acc) : SameKey(acc[j], d)
  THEN CHOOSE j \in 1..Len(acc) : SameKey(acc[j], d)
  ELSE 0

LatestStepKeepFirst(acc, d) ==
  IF KeyPos(acc, d) = 0 THEN Append(acc, d) ELSE acc

LatestStepStrict(acc, d) ==
  LET j == KeyPos(acc, d) IN
  IF j = 0 THEN Append(acc, d)
  ELSE IF events[d].createdAt > events[acc[j]].createdAt
       THEN [acc EXCEPT ![j] = d]
       ELSE acc

LatestStepWrongSlot(acc, d) ==
  LET j == KeyPos(acc, d) IN
  IF j = 0 THEN Append(acc, d)
  ELSE IF events[d].createdAt >= events[acc[j]].createdAt
       THEN [acc EXCEPT ![1] = d]
       ELSE acc

LatestStep(acc, d) ==
  LET j == KeyPos(acc, d) IN
  IF j = 0 THEN Append(acc, d)
  ELSE IF events[d].createdAt >= events[acc[j]].createdAt
       THEN [acc EXCEPT ![j] = d]
       ELSE acc

RECURSIVE latestByKey(_, _)
latestByKey(acc, docs) ==
  IF docs = << >> THEN acc
  ELSE latestByKey(LatestStep(acc, Head(docs)), Tail(docs))

finalDocs(docs) == latestByKey(<< >>, docs)

\* one rendered line per document of finalDocs
linesText(fd) ==
  [i \in 1..Len(fd) |->
     IF events[fd[i]].type = "comment"
     THEN <<events[fd[i]].projectId, "commented">>
     ELSE <<events[fd[i]].projectId, "Status">>]

SeqSet(s) == {s[i] : i \in 1..Len(s)}

\* 1) the claim query: processed == false, processing == false,
\* createdAt <= cutoff, orderBy createdAt asc (ties by document id), limit 500
cutoff == now - CutoffMin

PendingNoCutoff == {id \in Ids : /\ events[id] # NoDoc
                                 /\ events[id].processed = FALSE
                                 /\ events[id].processing = FALSE}

Pending == {id \in Ids : /\ events[id] # NoDoc
                         /\ events[id].processed = FALSE
                         /\ events[id].processing = FALSE
                         /\ events[id].createdAt <= cutoff}

NewestFirst(a, b) ==
  \/ events[a].createdAt > events[b].createdAt
  \/ events[a].createdAt = events[b].createdAt /\ a > b

Before(a, b) ==
  \/ events[a].createdAt < events[b].createdAt
  \/ events[a].createdAt = events[b].createdAt /\ a < b

RECURSIVE OrderByCreatedAt(_)
OrderByCreatedAt(S) ==
  IF S = {} THEN << >>
  ELSE LET first == CHOOSE a \in S : \A b \in S \ {a} : Before(a, b)
       IN <<first>> \o OrderByCreatedAt(S \ {first})

Limit(s, n) == IF Len(s) <= n THEN s ELSE SubSeq(s, 1, n)

ClaimQueryN(n) == Limit(OrderByCreatedAt(Pending), n)

ClaimQuery == ClaimQueryN(BatchLimit)

KeepSnapExists(id) == events[id] # NoDoc

\* 2) the filter applied to the re-loaded snapshots
KeepSnap(id) ==
  /\ events[id] # NoDoc
  /\ ~(events[id].processed = TRUE)
  /\ ~(events[id].processing # TRUE)
  /\ ~(events[id].type # "comment" /\ events[id].type # "status")

RECURSIVE SelectSeq2(_, _)
SelectSeq2(s, uid) ==
  IF s = << >> THEN << >>
  ELSE IF KeepSnap(Head(s)) /\ events[Head(s)].uid = uid
       THEN <<Head(s)>> \o SelectSeq2(Tail(s), uid)
       ELSE SelectSeq2(Tail(s), uid)

\* Object.entries(perUser): keys in order of first insertion
RECURSIVE UserOrder(_, _)
UserOrder(s, seen) ==
  IF s = << >> THEN << >>
  ELSE IF KeepSnap(Head(s)) /\ events[Head(s)].uid \notin seen
       THEN <<events[Head(s)].uid>> \o UserOrder(Tail(s), seen \cup {events[Head(s)].uid})
       ELSE UserOrder(Tail(s), seen)

NoBatch == [u \in Users |-> << >>]

\* which documents each per-user batch write touches
NoEmailDocsLatest(docs) == finalDocs(docs)
NoEmailDocs(docs) == docs
ReleaseDocs(docs) == finalDocs(docs)
ProcessedDocsOfUser(docs) ==
  IF docs = << >> THEN << >>
  ELSE OrderByCreatedAt({id \in Ids : /\ events[id] # NoDoc
                                      /\ events[id].uid = events[docs[1]].uid})
ProcessedDocs(docs) == finalDocs(docs)

\* the field updates of the three per-user batch writes and of the claim
ClaimUpdate(doc) == [doc EXCEPT !.processing = TRUE]
SkipUpdate(doc) == [doc EXCEPT !.processed = TRUE, !.processing = FALSE,
                               !.skipped = "no-email"]
ReleaseUpdateRequeue(doc) == [doc EXCEPT !.processing = FALSE, !.createdAt = now]
ReleaseUpdate(doc) == [doc EXCEPT !.processing = FALSE]
ProcessedUpdate(doc) == [doc EXCEPT !.processed = TRUE, !.processing = FALSE]

TooSoon(lastSentAt, nowMs) ==
  lastSentAt # NoTime /\ nowMs - lastSentAt < MinIntervalMin

\* ------------------------------------------------------------------ Init
\* The queue starts empty.  A recipient with an address either never got a
\* digest, or got one at time 0 for events that were processed before and
\* that no query selects any more.
PriorDigest(u) == IF getUserEmail(u) = "null" THEN {NoTime} ELSE {NoTime, 0}

Init ==
  /\ now = 0
  /\ events = [id \in Ids |-> NoDoc]
  /\ lastMailAt \in [Users -> {NoTime, 0}]
  /\ \A u \in Users : lastMailAt[u] \in PriorDigest(u)
  /\ meta = [u \in Users |-> [lastSentAt |-> lastMailAt[u], lastSkippedAt |-> NoTime]]
  /\ pc = [r \in Runs |-> "idle"]
  /\ toClaim = [r \in Runs |-> << >>]
  /\ perUser = [r \in Runs |-> NoBatch]
  /\ todo = [r \in Runs |-> << >>]
  /\ mailCount = [id \in Ids |-> 0]
  /\ everClaimed = {}
  /\ runMails = [r \in Runs |-> NoMails]
  /\ suppressed = {}
  /\ prefs = StoredPrefs
  /\ call = NoCall

\* ----------------------------------------------------- sendEmailDigests
Ghosts == <<mailCount, lastMailAt, everClaimed>>

\* the scheduler starts an invocation; it runs the claim query
QueryN(r, n) ==
  /\ pc[r] \in {"idle", "failed"}
  /\ LET q == ClaimQueryN(n) IN
       /\ toClaim' = [toClaim EXCEPT ![r] = q]
       /\ pc' = [pc EXCEPT ![r] = IF q = << >> THEN "idle" ELSE "claim"]
  /\ perUser' = [perUser EXCEPT ![r] = NoBatch]
  /\ todo' = [todo EXCEPT ![r] = << >>]
  /\ runMails' = [runMails EXCEPT ![r] = NoMails]
  /\ UNCHANGED <<now, events, meta, Ghosts, suppressed, Outside>>

Query(r) == QueryN(r, BatchLimit)

\* claimBatch.commit()
ClaimCommit(r) ==
  /\ pc[r] = "claim"
  /\ events' = [id \in Ids |-> IF id \in SeqSet(toClaim[r])
                               THEN ClaimUpdate(events[id]) ELSE events[id]]
  /\ everClaimed' = everClaimed \cup
       {id \in Ids : events'[id] # NoDoc /\ events'[id].processing = TRUE}
  /\ pc' = [pc EXCEPT ![r] = "reload"]
  /\ UNCHANGED <<now, meta, toClaim, perUser, todo, mailCount, lastMailAt, Marks, Outside>>

\* db.getAll(...claimedIds) and the grouping per user
Reload(r) ==
  /\ pc[r] = "reload"
  /\ LET claimedIds == toClaim[r]
         order == UserOrder(claimedIds, {}) IN
       /\ perUser' = [perUser EXCEPT ![r] = [u \in Users |-> SelectSeq2(claimedIds, u)]]
       /\ todo' = [todo EXCEPT ![r] = order]
       /\ pc' = [pc EXCEPT ![r] = IF order = << >> THEN "idle" ELSE "user"]
  /\ toClaim' = [toClaim EXCEPT ![r] = << >>]
  /\ UNCHANGED <<now, events, meta, Ghosts, Marks, Outside>>

\* the for-loop moves to the next entry, or the invocation returns
NextUser(r) ==
  /\ todo' = [todo EXCEPT ![r] = Tail(todo[r])]
  /\ perUser' = [perUser EXCEPT ![r][Head(todo[r])] = << >>]
  /\ pc' = [pc EXCEPT ![r] = IF Tail(todo[r]) = << >> THEN "idle" ELSE "user"]
  /\ runMails' = IF Tail(todo[r]) = << >> THEN [runMails EXCEPT ![r] = NoMails]
                 ELSE runMails

\* getUserEmail(uid) returned null: mark processed, skipped
NoEmail(r) ==
  /\ pc[r] = "user"
  /\ LET uid == Head(todo[r])
         docs == perUser[r][uid] IN
       /\ getUserEmail(uid) = "null"
       /\ events' = [id \in Ids |-> IF id \in SeqSet(NoEmailDocs(docs))
                                    THEN SkipUpdate(events[id]) ELSE events[id]]
  /\ NextUser(r)
  /\ UNCHANGED <<now, meta, toClaim, Ghosts, suppressed, Outside>>

\* metaRef.get() and the rate-limit test
CheckRate(r) ==
  /\ pc[r] = "user"
  /\ LET uid == Head(todo[r]) IN
       /\ getUserEmail(uid) # "null"
       /\ pc' = [pc EXCEPT ![r] = IF TooSoon(meta[uid].lastSentAt, now)
                                  THEN "release" ELSE "send"]
  /\ UNCHANGED <<now, events, meta, toClaim, perUser, todo, Ghosts, Marks, Outside>>

ReleaseSetsLastSent(r) ==
  /\ pc[r] = "release"
  /\ LET uid == Head(todo[r])
         docs == perUser[r][uid] IN
       /\ events' = [id \in Ids |-> IF id \in SeqSet(ReleaseDocs(docs))
                                    THEN ReleaseUpdate(events[id]) ELSE events[id]]
       /\ meta' = [meta EXCEPT ![uid].lastSkippedAt = now, ![uid].lastSentAt = now]
       /\ suppressed' = suppressed \cup SeqSet(docs)
  /\ NextUser(r)
  /\ UNCHANGED <<now, toClaim, Ghosts, Outside>>

ReleaseNoMeta(r) ==
  /\ pc[r] = "release"
  /\ LET uid == Head(todo[r])
         docs == perUser[r][uid] IN
       /\ events' = [id \in Ids |-> IF id \in SeqSet(ReleaseDocs(docs))
                                    THEN ReleaseUpdate(events[id]) ELSE events[id]]
       /\ suppressed' = suppressed \cup SeqSet(docs)
  /\ NextUser(r)
  /\ UNCHANGED <<now, meta, toClaim, Ghosts, Outside>>

\* too soon: un-claim and record lastSkippedAt
Release(r) ==
  /\ pc[r] = "release"
  /\ LET uid == Head(todo[r])
         docs == perUser[r][uid] IN
       /\ events' = [id \in Ids |-> IF id \in SeqSet(ReleaseDocs(docs))
                                    THEN ReleaseUpdate(events[id]) ELSE events[id]]
       /\ meta' = [meta EXCEPT ![uid].lastSkippedAt = now]
       /\ suppressed' = suppressed \cup SeqSet(docs)
  /\ NextUser(r)
  /\ UNCHANGED <<now, toClaim, Ghosts, Outside>>

SendOkPerLine(r) ==
  /\ pc[r] = "send"
  /\ LET uid == Head(todo[r])
         docs == perUser[r][uid] IN
       /\ mailCount' = [id \in Ids |-> IF id \in SeqSet(finalDocs(docs))
                                       THEN mailCount[id] + 1 ELSE mailCount[id]]
       /\ lastMailAt' = [lastMailAt EXCEPT ![uid] = now]
       /\ runMails' = [runMails EXCEPT ![r][uid] = @ + Len(finalDocs(docs))]
  /\ pc' = [pc EXCEPT ![r] = "finalize"]
  /\ UNCHANGED <<now, events, meta, toClaim, perUser, todo, everClaimed, suppressed, Outside>>

\* sgMail.send resolves
SendOk(r) ==
  /\ pc[r] = "send"
  /\ LET uid == Head(todo[r])
         docs == perUser[r][uid] IN
       /\ mailCount' = [id \in Ids |-> IF id \in SeqSet(finalDocs(docs))
                                       THEN mailCount[id] + 1 ELSE mailCount[id]]
       /\ lastMailAt' = [lastMailAt EXCEPT ![uid] = now]
       /\ runMails' = [runMails EXCEPT ![r][uid] = @ + 1]
  /\ pc' = [pc EXCEPT ![r] = "finalize"]
  /\ UNCHANGED <<now, events, meta, toClaim, perUser, todo, everClaimed, suppressed, Outside>>

SendFailMarksProcessed(r) ==
  /\ pc[r] = "send"
  /\ pc' = [pc EXCEPT ![r] = "failed"]
  /\ events' = [id \in Ids |-> IF id \in SeqSet(ProcessedDocs(perUser[r][Head(todo[r])]))
                               THEN ProcessedUpdate(events[id]) ELSE events[id]]
  /\ UNCHANGED <<now, meta, toClaim, perUser, todo, Ghosts, Marks, Outside>>

\* sgMail.send rejects: the exception ends the invocation
SendFail(r) ==
  /\ pc[r] = "send"
  /\ pc' = [pc EXCEPT ![r] = "failed"]
  /\ UNCHANGED <<now, events, meta, toClaim, perUser, todo, Ghosts, Marks, Outside>>

\* mark processed and set lastSentAt
Finalize(r) ==
  /\ pc[r] = "finalize"
  /\ LET uid == Head(todo[r])
         docs == perUser[r][uid] IN
       /\ events' = [id \in Ids |-> IF id \in SeqSet(ProcessedDocs(docs))
                                    THEN ProcessedUpdate(events[id]) ELSE events[id]]
       /\ meta' = [meta EXCEPT ![uid].lastSentAt = now]
  /\ NextUser(r)
  /\ UNCHANGED <<now, toClaim, Ghosts, suppressed, Outside>>

\* ----------------------------------------------------------------- clock
Tick ==
  /\ now + TickStep <= MaxTime
  /\ now' = now + TickStep
  /\ UNCHANGED <<events, meta, pc, toClaim, perUser, todo, Ghosts, Marks, Outside>>

\* ------------------------------------------------------------------ Next
Record ==
  /\ \E uid \in Users, projectId \in Projects, who \in Authors :
       \/ queueOnNewComment(uid, projectId, who)
       \/ \E statusChanged \in BOOLEAN :
            queueOnProjectStatusChange(uid, projectId, statusChanged, who)
  /\ UNCHANGED call

Digest ==
  \E r \in Runs :
    \/ Query(r)
    \/ ClaimCommit(r)
    \/ Reload(r)
    \/ NoEmail(r)
    \/ CheckRate(r)
    \/ Release(r)
    \/ SendOk(r)
    \/ SendFail(r)
    \/ Finalize(r)

Next == Record \/ Digest \/ Tick

Spec == Init /\ [][Next]_vars

\* the same system with a transport that never rejects a message
DigestNoFail ==
  \E r \in Runs :
    \/ Query(r)
    \/ ClaimCommit(r)
    \/ Reload(r)
    \/ NoEmail(r)
    \/ CheckRate(r)
    \/ Release(r)
    \/ SendOk(r)
    \/ Finalize(r)

NextNoFail == Record \/ DigestNoFail \/ Tick

SpecNoFail == Init /\ [][NextNoFail]_vars

\* ================================================================ claims
\* the working batch of an invocation: the re-loaded documents it groups
Batch(r) == UNION {SeqSet(perUser[r][u]) : u \in Users}
CurUser(r) == Head(todo[r])
CurDocs(r) == SeqSet(perUser[r][CurUser(r)])
Exists(id) == events[id] # NoDoc

\* steps of an invocation, told by its position before and after
NoEmailStep(r) == pc[r] = "user" /\ todo'[r] # todo[r]
ReleaseStep(r) == pc[r] = "release" /\ pc'[r] # "release"
SendOkStep(r) == pc[r] = "send" /\ pc'[r] = "finalize"
SendFailStep(r) == pc[r] = "send" /\ pc'[r] = "failed"
FinalizeStep(r) == pc[r] = "finalize" /\ pc'[r] # "finalize"

\* C1: no event is in the working batch of two invocations at once.
C1_SingleOwner ==
  \A r1, r2 \in Runs : r1 # r2 => Batch(r1) \cap Batch(r2) = {}

\* C2: no event record is included in more than one digest email handed
\* to the transport.
C2_AtMostOneDelivery == \A id \in Ids : mailCount[id] <= 1

\* C3: when a run finalizes a sent digest, every event it claimed for that
\* recipient, collapsed duplicates included, has processed = true.
C3_AllProcessedAfterSend ==
  [][\A r \in Runs : FinalizeStep(r) =>
       \A id \in CurDocs(r) : events'[id].processed = TRUE]_vars

\* C4: when a run finds the recipient's lastSentAt less than minInterval ago,
\* it sends nothing and every event it claimed for the recipient, collapsed
\* duplicates included, is back at claimed = false, processed = false.
C4_SuppressedReleasesAll ==
  [][\A r \in Runs : ReleaseStep(r) =>
       /\ mailCount' = mailCount
       /\ \A id \in CurDocs(r) : /\ events'[id].processing = FALSE
                                 /\ events'[id].processed = FALSE]_vars

\* C5: an event moves only unclaimed -> claimed, claimed -> processed and
\* claimed -> unclaimed, the last only in a suppression release; processed is
\* terminal and a processed event never enters a batch.
EvState(ev) ==
  IF ev = NoDoc THEN "none"
  ELSE IF ev.processed THEN "processed"
  ELSE IF ev.processing THEN "claimed" ELSE "unclaimed"

C5_Transitions ==
  [][\A id \in Ids :
       LET a == EvState(events[id])
           b == EvState(events'[id]) IN
       /\ \/ a = b
          \/ <<a, b>> \in {<<"none", "unclaimed">>, <<"unclaimed", "claimed">>,
                           <<"claimed", "processed">>}
          \/ <<a, b>> = <<"claimed", "unclaimed">> /\ \E r \in Runs : ReleaseStep(r)
       /\ \A r \in Runs :
            (a = "processed" /\ id \in Batch(r)') => id \in Batch(r)]_vars

\* C6: a write that turns processed to true finds the stored claimed flag
\* true immediately before it.
C6_ProcessedOnlyWhileClaimed ==
  [][\A id \in Ids :
       (Exists(id) /\ events[id].processed = FALSE /\ events'[id].processed = TRUE)
         => events[id].processing = TRUE]_vars

\* C7: an event turns processed only after an earlier step set its claimed
\* flag to true.
C7_ClaimedBeforeProcessed ==
  [][\A id \in Ids :
       (Exists(id) /\ events[id].processed = FALSE /\ events'[id].processed = TRUE)
         => id \in everClaimed]_vars

C7_Witness ==
  \E id \in Ids : Exists(id) /\ events[id].processed = TRUE /\ id \in everClaimed

C9_NoAddressSkipped ==
  [][/\ \A r \in Runs :
          (NoEmailStep(r) /\ getUserEmail(CurUser(r)) = "null") =>
            /\ mailCount' = mailCount
            /\ \A id \in CurDocs(r) : /\ events'[id].processed = TRUE
                                      /\ events'[id].skipped = "no-email"
     /\ \A id \in Ids : \A r \in Runs :
          (Exists(id) /\ events[id].skipped = "no-email") =>
            /\ id \in Batch(r)' => id \in Batch(r)
            /\ id \in SeqSet(toClaim'[r]) => id \in SeqSet(toClaim[r])
            /\ events'[id].processed = TRUE]_vars

C9_Witness ==
  /\ \E a, b \in Ids :
       /\ a # b /\ Exists(a) /\ Exists(b) /\ SameKey(a, b)
       /\ \A id \in {a, b} : /\ events[id].skipped = "no-email"
                              /\ events[id].processed = TRUE
                              /\ getUserEmail(events[id].uid) = "null"
  /\ mailCount = [id \in Ids |-> 0]

\* C10: two digest emails to one recipient are never handed to the transport
\* less than minInterval apart.
C10_MinIntervalBetweenMails ==
  [][\A r \in Runs : SendOkStep(r) =>
       \/ lastMailAt[CurUser(r)] = NoTime
       \/ now - lastMailAt[CurUser(r)] >= MinIntervalMin]_vars

\* C11: one invocation hands at most one digest message per recipient to the
\* transport, whatever number of events it claimed for the recipient.
C11_OneMailPerRunAndUser ==
  \A r \in Runs : \A u \in Users : runMails[r][u] <= 1

C11_Witness ==
  \E r \in Runs :
    /\ pc[r] = "finalize"
    /\ runMails[r][CurUser(r)] = 1
    /\ Cardinality(CurDocs(r)) = 2
    /\ Len(finalDocs(perUser[r][CurUser(r)])) = 2

\* ------------------------------------------- the collapse taken on its own
\* One invocation holds a re-loaded batch of one recipient: documents
\* 1..n in claim order (createdAt ascending), of any type and timestamp.
DocIds == 1..MaxDocs
BatchDoc(type, at) ==
  [exists |-> TRUE, uid |-> "u1", type |-> type, projectId |-> "p1",
   payload |-> IF type = "comment" THEN CommentPayload ELSE StatusPayload("p1"),
   processed |-> FALSE, processing |-> TRUE, createdAt |-> at, skipped |-> "none"]
BatchDocs == {BatchDoc(type, at) : type \in {"comment", "status"}, at \in 0..MaxStamp}
BatchTables ==
  {t \in [DocIds -> BatchDocs \cup {NoDoc}] :
     /\ t[1] # NoDoc
     /\ \A i \in DocIds : \A j \in DocIds :
          (i < j /\ t[j] # NoDoc) => (t[i] # NoDoc /\ t[i].createdAt <= t[j].createdAt)}
IdsUpTo(t) == [i \in 1..Cardinality({d \in DocIds : t[d] # NoDoc}) |-> i]

InitCollapse ==
  /\ events \in BatchTables
  /\ now = MaxStamp + CutoffMin
  /\ meta = [u \in Users |-> [lastSentAt |-> NoTime, lastSkippedAt |-> NoTime]]
  /\ pc = [r \in Runs |-> IF r = "r1" THEN "user" ELSE "idle"]
  /\ toClaim = [r \in Runs |-> IF r = "r1" THEN IdsUpTo(events) ELSE << >>]
  /\ perUser = [r \in Runs |-> IF r = "r1" THEN [NoBatch EXCEPT !["u1"] = IdsUpTo(events)]
                               ELSE NoBatch]
  /\ todo = [r \in Runs |-> IF r = "r1" THEN <<"u1">> ELSE << >>]
  /\ mailCount = [id \in Ids |-> 0]
  /\ lastMailAt = [u \in Users |-> NoTime]
  /\ everClaimed = {}
  /\ runMails = [r \in Runs |-> NoMails]
  /\ suppressed = {}
  /\ prefs = StoredPrefs
  /\ call = NoCall

\* finalDocs = Array.from(latestByKey.values())
Collapse(r) ==
  /\ pc[r] = "user"
  /\ perUser' = [perUser EXCEPT ![r][Head(todo[r])] = finalDocs(@)]
  /\ pc' = [pc EXCEPT ![r] = "collapsed"]
  /\ UNCHANGED <<now, events, meta, toClaim, todo, Ghosts, Marks, Outside>>

\* the collapse applied to its own output
CollapseAgain(r) ==
  /\ pc[r] = "collapsed"
  /\ perUser' = [perUser EXCEPT ![r][Head(todo[r])] = finalDocs(@)]
  /\ pc' = [pc EXCEPT ![r] = "collapsed2"]
  /\ UNCHANGED <<now, events, meta, toClaim, todo, Ghosts, Marks, Outside>>

NextCollapse == \E r \in Runs : Collapse(r) \/ CollapseAgain(r)

SpecCollapse == InitCollapse /\ [][NextCollapse]_vars

InDocs(r) == toClaim[r]
OutDocs(r) == perUser[r][CurUser(r)]
KeysOf(docs) == {<<events[docs[i]].type, events[docs[i]].projectId>> : i \in 1..Len(docs)}

\* C12: the collapse keeps exactly one event per (type, projectId) key, the
\* kept event has the greatest createdAt of its key, and the digest has one
\* line per key; comment t=1, comment t=2, status t=3 give the t=2 comment and
\* the t=3 status.
C12_OnePerKeyLatest ==
  \A r \in Runs : pc[r] = "collapsed" =>
    LET in == InDocs(r)
        out == OutDocs(r) IN
    /\ SeqSet(out) \subseteq SeqSet(in)
    /\ \A i, j \in 1..Len(out) : i # j => ~SameKey(out[i], out[j])
    /\ \A i \in 1..Len(in) : \E j \in 1..Len(out) :
         /\ SameKey(out[j], in[i])
         /\ events[out[j]].createdAt >= events[in[i]].createdAt
    /\ Len(linesText(out)) = Cardinality(KeysOf(in))
    /\ ( /\ Len(in) = 3
         /\ events[1].type = "comment" /\ events[2].type = "comment"
         /\ events[3].type = "status"
         /\ events[1].createdAt < events[2].createdAt
         /\ events[2].createdAt < events[3].createdAt )
       => (SeqSet(out) = {2, 3} /\ Len(linesText(out)) = 2)

C12_Witness ==
  /\ pc["r1"] = "collapsed"
  /\ InDocs("r1") = <<1, 2, 3>>
  /\ events[1].type = "comment" /\ events[2].type = "comment"
  /\ events[3].type = "status"
  /\ events[1].createdAt < events[2].createdAt
  /\ events[2].createdAt < events[3].createdAt
  /\ SeqSet(OutDocs("r1")) = {2, 3}

\* C13: of two events of one key with equal createdAt the collapse never
\* keeps the one that comes earlier in claim order.
C13_TieKeepsLater ==
  \A r \in Runs : pc[r] = "collapsed" =>
    LET in == InDocs(r)
        out == OutDocs(r) IN
    \A i, j \in 1..Len(in) :
      (i < j /\ SameKey(in[i], in[j])
             /\ events[in[i]].createdAt = events[in[j]].createdAt)
        => in[i] \notin SeqSet(out)

C13_Witness ==
  /\ pc["r1"] = "collapsed"
  /\ InDocs("r1") = <<1, 2>>
  /\ SameKey(1, 2)
  /\ events[1].createdAt = events[2].createdAt
  /\ OutDocs("r1") = <<2>>

\* C14: the collapse applied to its own output returns that output.
C14_CollapseIdempotent ==
  [][\A r \in Runs : (pc[r] = "collapsed" /\ pc'[r] = "collapsed2")
       => perUser'[r] = perUser[r]]_vars

C14_Witness ==
  /\ pc["r1"] = "collapsed2"
  /\ Len(InDocs("r1")) = 3
  /\ Len(OutDocs("r1")) = 2

\* C15: a run selects an event only if at that moment the event is not
\* processed, not claimed and at least the cutoff old; only selected events,
\* not processed at the re-load, enter the run's batch.
C15_SelectsOnlyPending ==
  [][\A r \in Runs :
       /\ \A id \in SeqSet(toClaim'[r]) \ SeqSet(toClaim[r]) :
            /\ Exists(id)
            /\ events[id].processed = FALSE
            /\ events[id].processing = FALSE
            /\ events[id].createdAt <= now - CutoffMin
       /\ \A id \in Batch(r)' \ Batch(r) :
            /\ id \in SeqSet(toClaim[r])
            /\ events[id].processed = FALSE
            /\ events[id].createdAt <= now - CutoffMin]_vars

C15_Witness ==
  \E r \in Runs : \E young \in Ids :
    /\ Batch(r) # {}
    /\ Exists(young)
    /\ events[young].createdAt > now - CutoffMin
    /\ events[young].processing = FALSE
    /\ young \notin Batch(r)

\* ----------------------------------------- the claim query taken on its own
\* The queue holds documents in any mix of unclaimed, claimed and processed,
\* created in id order; the query runs with the limit QueryLimit.
QueueDoc(type, at, st) ==
  [exists |-> TRUE, uid |-> "u1", type |-> type, projectId |-> "p1",
   payload |-> IF type = "comment" THEN CommentPayload ELSE StatusPayload("p1"),
   processed |-> (st = "processed"), processing |-> (st = "claimed"),
   createdAt |-> at, skipped |-> "none"]
QueueDocs == {QueueDoc(type, at, st) : type \in {"comment", "status"},
                at \in 0..MaxStamp, st \in {"unclaimed", "claimed", "processed"}}
QueueTables ==
  {t \in [Ids -> QueueDocs \cup {NoDoc}] :
     \A i \in Ids : \A j \in Ids :
       (i < j /\ t[j] # NoDoc) => (t[i] # NoDoc /\ t[i].createdAt <= t[j].createdAt)}

InitQuery ==
  /\ events \in QueueTables
  /\ now = MaxStamp + CutoffMin - 1
  /\ meta = [u \in Users |-> [lastSentAt |-> NoTime, lastSkippedAt |-> NoTime]]
  /\ pc = [r \in Runs |-> "idle"]
  /\ toClaim = [r \in Runs |-> << >>]
  /\ perUser = [r \in Runs |-> NoBatch]
  /\ todo = [r \in Runs |-> << >>]
  /\ mailCount = [id \in Ids |-> 0]
  /\ lastMailAt = [u \in Users |-> NoTime]
  /\ everClaimed = {}
  /\ runMails = [r \in Runs |-> NoMails]
  /\ suppressed = {}
  /\ prefs = StoredPrefs
  /\ call = NoCall

QueryLimited(r) == QueryN(r, QueryLimit)

NextQuery == \E r \in Runs : QueryLimited(r) \/ ClaimCommit(r)

SpecQuery == InitQuery /\ [][NextQuery]_vars

Min(a, b) == IF a <= b THEN a ELSE b

\* C16: the claimed batch is the first min(maxSize, n) of the n eligible
\* events in ascending createdAt order: never more than maxSize, and never an
\* eligible event while an older eligible one is left out.
C16_OldestFirstUpToLimit ==
  [][\A r \in Runs :
       /\ (pc[r] = "idle" /\ pc'[r] = "claim") =>
            LET eligible == {id \in Ids : /\ Exists(id)
                                          /\ events[id].processed = FALSE
                                          /\ events[id].processing = FALSE
                                          /\ events[id].createdAt <= now - CutoffMin}
                q == toClaim'[r] IN
            /\ Len(q) = Min(QueryLimit, Cardinality(eligible))
            /\ Cardinality(SeqSet(q)) = Len(q)
            /\ SeqSet(q) \subseteq eligible
            /\ \A i, j \in 1..Len(q) :
                 i < j => events[q[i]].createdAt <= events[q[j]].createdAt
            /\ \A a \in SeqSet(q) : \A b \in eligible \ SeqSet(q) :
                 /\ events[a].createdAt <= events[b].createdAt
                 /\ events[a].createdAt = events[b].createdAt => a < b
       /\ (pc[r] = "claim" /\ pc'[r] = "reload") =>
            \A id \in Ids :
              (Exists(id) /\ events[id].processing = FALSE) =>
                (events'[id].processing = TRUE <=> id \in SeqSet(toClaim[r]))]_vars

C16_Witness ==
  /\ pc["r1"] = "reload"
  /\ pc["r2"] = "idle"
  /\ Len(toClaim["r1"]) = QueryLimit
  /\ \A id \in SeqSet(toClaim["r1"]) : events[id].processing = TRUE
  /\ \E left \in Pending : \A id \in SeqSet(toClaim["r1"]) : Before(id, left)

\* C17: an event of a suppressed batch can be batched again and processed:
\* with a transport that never fails, such an event is never left claimed and
\* unprocessed without an invocation that holds it (the query selects only
\* documents with processing == false, so such an event would stay for ever).
C17_SuppressedNeverStuck ==
  \A id \in suppressed :
    (events[id].processing = TRUE /\ events[id].processed = FALSE)
      => \E r \in Runs : id \in Batch(r) \cup SeqSet(toClaim[r])

\* C18: one uncontended run for a recipient with an address and no earlier
\* digest, transport working: one email, every event the run claimed for the
\* recipient processed, lastSentAt set.
C18_EndToEnd ==
  [][\A r \in Runs :
       ( /\ FinalizeStep(r)
         /\ meta[CurUser(r)].lastSentAt = NoTime
         /\ \A other \in Runs \ {r} : pc[other] = "idle" )
       => /\ runMails[r][CurUser(r)] = 1
          /\ \A id \in CurDocs(r) : events'[id].processed = TRUE
          /\ meta'[CurUser(r)].lastSentAt = now]_vars

\* C19: the recipient's emailDigest record is written after every sent batch
\* (lastSentAt) and after every suppressed batch (lastSkippedAt, lastSentAt
\* kept).
C19_SendRecordWritten ==
  [][\A r \in Runs :
       /\ FinalizeStep(r) => meta'[CurUser(r)].lastSentAt = now
       /\ ReleaseStep(r) =>
            /\ meta'[CurUser(r)].lastSkippedAt = now
            /\ meta'[CurUser(r)].lastSentAt = meta[CurUser(r)].lastSentAt]_vars

C19_Witness ==
  \E u \in Users :
    /\ meta[u].lastSentAt > 0
    /\ meta[u].lastSkippedAt # NoTime

\* C20: recording adds exactly one new event with processed = false and
\* claimed = false and changes no existing event and no send record, also
\* when an earlier event of the same recipient, type and project exists.
RecordStep == events' # events /\ pc' = pc /\ todo' = todo

C20_PureAppend ==
  [][RecordStep =>
       /\ \E id \in Ids :
            /\ events[id] = NoDoc
            /\ events'[id] # NoDoc
            /\ events'[id].processed = FALSE
            /\ events'[id].processing = FALSE
            /\ events'[id].createdAt = now
            /\ \A other \in Ids \ {id} : events'[other] = events[other]
       /\ meta' = meta]_vars

C20_Witness ==
  \E a, b \in Ids :
    /\ a < b /\ Exists(a) /\ Exists(b)
    /\ events[a].uid = events[b].uid /\ SameKey(a, b)
    /\ events[a].processing = TRUE /\ events[a].createdAt < events[b].createdAt
    /\ events[b].processing = FALSE /\ events[b].processed = FALSE

\* ------------------------------------------- the recorder taken on its own
\* Any stored notificationPrefs.email map, each field absent or set, for one
\* recipient while the other keeps the stored map of the directory.
PrefFlags == {"unset", "true", "false"}
PrefModes == {"unset", "immediate", "digest-15m"}
PrefDoc(c, s, m) ==
  [f \in {x \in {"onComment", "onStatusChange", "mode"} :
            \/ x = "onComment" /\ c # "unset"
            \/ x = "onStatusChange" /\ s # "unset"
            \/ x = "mode" /\ m # "unset"} |->
     IF f = "onComment" THEN c = "true"
     ELSE IF f = "onStatusChange" THEN s = "true"
     ELSE m]
PrefDocs == {PrefDoc(c, s, m) : c \in PrefFlags, s \in PrefFlags, m \in PrefModes}

InitRecorder ==
  /\ now = 0
  /\ events = [id \in Ids |-> NoDoc]
  /\ lastMailAt = [u \in Users |-> NoTime]
  /\ meta = [u \in Users |-> [lastSentAt |-> NoTime, lastSkippedAt |-> NoTime]]
  /\ pc = [r \in Runs |-> "idle"]
  /\ toClaim = [r \in Runs |-> << >>]
  /\ perUser = [r \in Runs |-> NoBatch]
  /\ todo = [r \in Runs |-> << >>]
  /\ mailCount = [id \in Ids |-> 0]
  /\ everClaimed = {}
  /\ runMails = [r \in Runs |-> NoMails]
  /\ suppressed = {}
  /\ prefs \in [Users -> PrefDocs]
  /\ \E u \in Users : prefs[u] = StoredPrefs[u]
  /\ call = NoCall

\* successive invocations are told apart by an alternating mark
NextMark == IF call = NoCall THEN 1 ELSE 1 - call.mark

\* a comment document is created: queueOnNewComment fires
OnCommentCreated(uid, projectId, who) ==
  /\ queueOnNewComment(uid, projectId, who)
  /\ call' = [fn |-> "queueOnNewComment", uid |-> uid, projectId |-> projectId,
              who |-> who, statusChanged |-> FALSE, mark |-> NextMark]

\* a project document is updated: queueOnProjectStatusChange fires
OnProjectUpdated(uid, projectId, statusChanged, who) ==
  /\ queueOnProjectStatusChange(uid, projectId, statusChanged, who)
  /\ call' = [fn |-> "queueOnProjectStatusChange", uid |-> uid,
              projectId |-> projectId, who |-> who,
              statusChanged |-> statusChanged, mark |-> NextMark]

\* a task document is created: no function is registered on
\* users/{uid}/projects/{projectId}/tasks/{taskId}
OnTaskCreated(uid, projectId) ==
  /\ call' = [fn |-> "taskCreated", uid |-> uid, projectId |-> projectId,
              who |-> NoAuthor, statusChanged |-> FALSE, mark |-> NextMark]
  /\ UNCHANGED events
  /\ RecorderFrame

\* the preference lookup on its own
ReadPrefs(uid) ==
  /\ call' = [fn |-> "getPrefs", uid |-> uid, result |-> getPrefs(uid),
              mark |-> NextMark]
  /\ UNCHANGED events
  /\ RecorderFrame

NextRecorder ==
  \E uid \in Users, projectId \in Projects, who \in Authors :
    \/ OnCommentCreated(uid, projectId, who)
    \/ \E statusChanged \in BOOLEAN :
         OnProjectUpdated(uid, projectId, statusChanged, who)
    \/ OnTaskCreated(uid, projectId)
    \/ ReadPrefs(uid)

SpecRecorder == InitRecorder /\ [][NextRecorder]_vars

\* what a trigger invocation may touch besides the queue
Pipeline == <<now, meta, pc, toClaim, perUser, todo, mailCount, lastMailAt,
              everClaimed, runMails, suppressed, prefs>>
Fired(fn) == call' # call /\ call'.fn = fn
StoredOff(uid, field) == field \in DOMAIN prefs[uid] /\ prefs[uid][field] = FALSE
Added == {id \in Ids : events[id] = NoDoc /\ events'[id] # NoDoc}
Kept == \A id \in Ids : events[id] # NoDoc => events'[id] = events[id]

\* C21: when the recipient's stored preferences disable the kind of the
\* mutation (onComment = false for a comment, onStatusChange = false for a
\* status change) the trigger adds no event and changes nothing else.
C21_DisabledKindNoOp ==
  [][( \/ Fired("queueOnNewComment") /\ StoredOff(call'.uid, "onComment")
       \/ Fired("queueOnProjectStatusChange") /\ StoredOff(call'.uid, "onStatusChange") )
       => (events' = events /\ UNCHANGED Pipeline)]_vars

C21_Witness ==
  /\ call.fn = "queueOnNewComment"
  /\ call.who = NoAuthor
  /\ StoredOff(call.uid, "onComment")
  /\ \E id \in Ids : /\ Exists(id) /\ events[id].uid = call.uid
                     /\ events[id].type = "status"
  /\ \A id \in Ids : Exists(id) =>
       ~(events[id].uid = call.uid /\ events[id].type = "comment")

\* C22: the lookup returns true for both kinds and "digest-15m" where nothing
\* is stored, the stored value for every stored field, and writes nothing.
C22_DefaultsAndStored ==
  [][Fired("getPrefs") =>
       LET stored == prefs[call'.uid]
           result == call'.result IN
       /\ DOMAIN result = {"onComment", "onStatusChange", "mode"}
       /\ \A f \in DOMAIN stored : result[f] = stored[f]
       /\ \A f \in {"onComment", "onStatusChange"} \ DOMAIN stored : result[f] = TRUE
       /\ "mode" \notin DOMAIN stored => result.mode = "digest-15m"
       /\ events' = events /\ UNCHANGED Pipeline]_vars

C22_Witness ==
  /\ call.fn = "getPrefs"
  /\ DOMAIN prefs[call.uid] = {"onComment"}
  /\ call.result = [onComment |-> FALSE, onStatusChange |-> TRUE, mode |-> "digest-15m"]

\* the mutation behind a trigger invocation: its kind, whether it qualifies
\* (made by someone else; for a project update, the status changed) and
\* whether the stored preferences leave the kind enabled
KindOf(c) ==
  IF c.fn = "queueOnNewComment" THEN "comment"
  ELSE IF c.fn = "queueOnProjectStatusChange" THEN "status"
  ELSE "task"
ByOwner(c) == c.who # NoAuthor /\ c.who = c.uid
Qualifying(c) ==
  IF c.fn = "queueOnNewComment" THEN ~ByOwner(c)
  ELSE IF c.fn = "queueOnProjectStatusChange" THEN c.statusChanged /\ ~ByOwner(c)
  ELSE TRUE
KindEnabled(c) ==
  IF c.fn = "queueOnNewComment" THEN ~StoredOff(c.uid, "onComment")
  ELSE IF c.fn = "queueOnProjectStatusChange" THEN ~StoredOff(c.uid, "onStatusChange")
  ELSE TRUE
PayloadOf(c) ==
  IF c.fn = "queueOnNewComment" THEN [author |-> "Someone", text |-> "hello"]
  ELSE [title |-> c.projectId, from |-> "new", to |-> "done"]
AppendsOne(c) ==
  /\ Cardinality(Added) = 1
  /\ Kept
  /\ \A id \in Added : /\ events'[id].uid = c.uid
                       /\ events'[id].type = KindOf(c)
                       /\ events'[id].projectId = c.projectId

C24_EventsKept ==
  [][\A id \in Ids : Exists(id) =>
       /\ events'[id] # NoDoc
       /\ events'[id].uid = events[id].uid
       /\ events'[id].type = events[id].type
       /\ events'[id].projectId = events[id].projectId
       /\ events'[id].payload = events[id].payload
       /\ events'[id].createdAt = events[id].createdAt]_vars

C24_Witness ==
  \E a, b \in Ids :
    /\ a # b /\ Exists(a) /\ Exists(b)
    /\ events[a].processed = TRUE /\ mailCount[a] = 1
    /\ events[a].createdAt < now
    /\ b \in suppressed /\ events[b].processing = FALSE /\ events[b].processed = FALSE
    /\ events[b].createdAt < now

\* C25: a run that completes without transport failure leaves none of the
\* events it claimed at claimed = true, processed = false: with a transport
\* that never fails, every claimed unprocessed event is held by an invocation
\* that is still at work.
C25_NoClaimLeftBehind ==
  \A id \in Ids :
    (Exists(id) /\ events[id].processing = TRUE /\ events[id].processed = FALSE)
      => \E r \in Runs : id \in Batch(r) \cup SeqSet(toClaim[r])

\* C26: the step in which the transport fails writes nothing, and from then
\* on the events of the failed recipient and of the recipients not yet handled
\* stay claimed = true, processed = false and no query selects them.
C26_FailedBatchStaysLocked ==
  [][\A r \in Runs :
       /\ SendFailStep(r) => (events' = events /\ meta' = meta)
       /\ pc[r] = "failed" =>
            \A id \in Batch(r) :
              /\ events'[id].processing = TRUE
              /\ events'[id].processed = FALSE
              /\ \A later \in Runs :
                   id \in SeqSet(toClaim'[later]) => id \in SeqSet(toClaim[later])]_vars

\* C27: the re-load puts into the batches exactly the selected events that
\* then exist, are not processed and are claimed; a batch gets no event
\* later, and the run's send, finalize and release touch only the batch of
\* the recipient at hand.
ReloadStep(r) == pc[r] = "reload" /\ pc'[r] # "reload"

NextSendAt(m) == IF m.lastSentAt = NoTime THEN 0 ELSE m.lastSentAt + MinIntervalMin

C28_SuppressionKeepsLastSent ==
  [][\A r \in Runs : ReleaseStep(r) =>
       /\ \A u \in Users : /\ meta'[u].lastSentAt = meta[u].lastSentAt
                           /\ NextSendAt(meta'[u]) = NextSendAt(meta[u])
       /\ meta'[CurUser(r)].lastSkippedAt = now]_vars

C28_Witness ==
  \E r \in Runs :
    /\ pc[r] = "release"
    /\ meta[CurUser(r)].lastSkippedAt # NoTime
    /\ meta[CurUser(r)].lastSentAt = 0
    /\ CurDocs(r) \cap suppressed # {}

\* C29: no event is added for a comment whose authorUid is the owner, for a
\* status change whose updatedBy is the owner, or for a project update with
\* the status unchanged; a mutation without authorUid / updatedBy is recorded.
C29_NoSelfNoUnchanged ==
  [][/\ (Fired("queueOnNewComment") /\ call'.who = call'.uid) => events' = events
     /\ (Fired("queueOnProjectStatusChange")
           /\ (call'.who = call'.uid \/ ~call'.statusChanged)) => events' = events
     /\ \A fn \in {"queueOnNewComment", "queueOnProjectStatusChange"} :
          ( /\ Fired(fn)
            /\ call'.who = NoAuthor
            /\ KindEnabled(call')
            /\ (fn = "queueOnProjectStatusChange" => call'.statusChanged) )
          => /\ Cardinality(Added) = 1
             /\ \A id \in Added : events'[id].uid = call'.uid]_vars

C29_Witness ==
  /\ call.fn = "queueOnNewComment"
  /\ call.who = call.uid
  /\ KindEnabled(call)
  /\ \E id \in Ids :
       /\ Exists(id) /\ events[id].uid = call.uid /\ events[id].type = "comment"
       /\ \A other \in Ids \ {id} : ~Exists(other)

\* C30: the cadence setting has no effect: whether a trigger records an
\* event is fixed by the mutation and the two kind flags alone, whatever mode
\* is stored, and no trigger hands a message to the transport.
C30_CadenceIgnored ==
  [][\A fn \in {"queueOnNewComment", "queueOnProjectStatusChange"} :
       Fired(fn) =>
         /\ (events' # events) <=> (Qualifying(call') /\ KindEnabled(call'))
         /\ events' # events => AppendsOne(call')
         /\ mailCount' = mailCount /\ lastMailAt' = lastMailAt
         /\ meta' = meta]_vars

C30_Witness ==
  /\ call.fn \in {"queueOnNewComment", "queueOnProjectStatusChange"}
  /\ "mode" \in DOMAIN prefs[call.uid]
  /\ prefs[call.uid].mode = "immediate"
  /\ \E id \in Ids : /\ Exists(id) /\ events[id].uid = call.uid
                     /\ events[id].type = KindOf(call)
                     /\ mailCount[id] = 0

====
